---- MODULE Spec2Model ----
(***************************************************************************)
(* Model of analysis/parse_proxy_output.py: the log analysis pipeline that *)
(* reads the JSONL traffic log written by analysis/json_logger.py, groups  *)
(* HTTP events by path, samples WebSocket message types, matches WebSocket *)
(* requests and responses by their "id" field, and renders a report.       *)
(***************************************************************************)
EXTENDS Integers, Sequences, FiniteSets, TLC

VARIABLES
    pc,                \* position of main(): "start", "read", "done", "exit1", "crashed"
    input_exists,      \* input_path.exists()
    lines,             \* the lines of the input file consumed so far (history)
    exit_status,       \* process exit status once the run has ended, -1 while running
    warnings,          \* line numbers of the "Failed to parse line" warnings printed
    http_endpoints,    \* path -> [methods, requests, responses]
    ws_message_types,  \* msg_type -> [samples, count]
    ws_requests,       \* id -> request message
    ws_responses,      \* id -> response message
    ws_matched_pairs,  \* sequence of <<request, response>>
    client_types,      \* the Summary's "client -> server" list, as printed
    fmt_in,            \* the body or message handed to the renderer of one report block
    fmt_out            \* the text the renderer appended to output_lines for it

vars == <<pc, input_exists, lines, exit_status, warnings, http_endpoints,
          ws_message_types, ws_requests, ws_responses, ws_matched_pairs,
          client_types, fmt_in, fmt_out>>

correlator == <<http_endpoints, ws_message_types, ws_requests, ws_responses,
                ws_matched_pairs>>

(***************************************************************************)
(* Bounds of the model: the number of input lines a run reads.             *)
(***************************************************************************)
MaxWsLines == 4
MaxHttpLines == 3

(***************************************************************************)
(* Python values as decoded by json.loads.  A dict has the keys "type" and *)
(* "id"; a key that is not in the dict holds Absent.                       *)
(***************************************************************************)
None == [t |-> "null"]
Absent == [t |-> "absent"]
Num(n) == [t |-> "int", v |-> n]
Str(s) == [t |-> "str", v |-> s]
List1 == [t |-> "list", n |-> 1]
Obj(ty, id) == [t |-> "dict", type |-> ty, id |-> id]

\* bool(x) of the interpreter
Truthy(x) ==
    CASE x.t = "null" -> FALSE
      [] x.t = "int" -> x.v # 0
      [] x.t = "str" -> x.v # ""
      [] x.t = "chars" -> x.v # <<>>
      [] x.t = "list" -> x.n > 0
      [] x.t = "dict" -> x.type # Absent \/ x.id # Absent

\* d.get(key, default)
Get(d, key, default) == IF d[key] = Absent THEN default ELSE d[key]

\* dictionaries of the interpreter: d[k] = v, and the empty dict
EmptyDict == [k \in {} |-> None]
Put(d, k, v) == [x \in (DOMAIN d) \cup {k} |-> IF x = k THEN v ELSE d[x]]

(***************************************************************************)
(* A string handed to json.loads is kept with what it decodes to: loads is *)
(* the decoded value, or JsonError when json.JSONDecodeError is raised.    *)
(***************************************************************************)
JsonError == [t |-> "error"]
Text(s, decoded) == [t |-> "str", v |-> s, loads |-> decoded]

\* a line of the input file that holds the JSON text of a record
JsonLine(record) == Text("{...}", record)

parse_ws_content(content) ==
    IF ~Truthy(content) \/ content.v = "<binary>"
    THEN None
    ELSE IF content.loads = JsonError THEN None ELSE content.loads

(***************************************************************************)
(* WebSocket correlator, main() lines 122-144.                             *)
(***************************************************************************)
MaxSamples == 3

NewTypeGroup == [samples |-> <<>>, count |-> 0]

\* if len(samples) < 3: samples.append(content)
TrackSamples(samples, content) ==
    IF Len(samples) < MaxSamples THEN Append(samples, content) ELSE samples

TrackType(types, msg_type, content) ==
    LET group == IF msg_type \in DOMAIN types THEN types[msg_type] ELSE NewTypeGroup
    IN Put(types, msg_type,
           [samples |-> TrackSamples(group.samples, content),
            count |-> group.count + 1])

\* faulty variant of StoreRequest: an id keeps the first request stored under it
KeepFirstRequest(requests, msg_id, content) ==
    IF msg_id \in DOMAIN requests THEN requests ELSE Put(requests, msg_id, content)

\* ws_requests[msg_id] = content
StoreRequest(requests, msg_id, content) == Put(requests, msg_id, content)

\* faulty variant of MatchRequest: the pair is appended response first
MatchSwapped(pairs, requests, msg_id, content) ==
    IF msg_id \in DOMAIN requests
    THEN Append(pairs, <<content, requests[msg_id]>>)
    ELSE pairs

\* faulty variant of MatchRequest: a new pair replaces the earlier pairs of its id
MatchReplacing(pairs, requests, msg_id, content) ==
    IF msg_id \in DOMAIN requests
    THEN Append(SelectSeq(pairs, LAMBDA p : p[2].id # msg_id), <<requests[msg_id], content>>)
    ELSE pairs

\* if msg_id in ws_requests: ws_matched_pairs.append((ws_requests[msg_id], content))
MatchRequest(pairs, requests, msg_id, content) ==
    IF msg_id \in DOMAIN requests
    THEN Append(pairs, <<requests[msg_id], content>>)
    ELSE pairs

WsRecord(direction, content) ==
    [t |-> "dict", type |-> "websocket", direction |-> direction, content |-> content]

ReadWebSocket(record) ==
    /\ pc = "read"
    /\ record.type = "websocket"
    /\ lines' = Append(lines, JsonLine(record))
    /\ LET content == parse_ws_content(record.content)
           direction == record.direction
       IN IF Truthy(content) /\ content.t = "dict"
          THEN LET msg_type == Get(content, "type", Str("unknown"))
                   msg_id == Get(content, "id", None)
               IN /\ ws_message_types' = TrackType(ws_message_types, msg_type, content)
                  /\ IF msg_id # None
                     THEN IF direction = "client"
                          THEN /\ ws_requests' = StoreRequest(ws_requests, msg_id, content)
                               /\ UNCHANGED <<ws_responses, ws_matched_pairs>>
                          ELSE /\ ws_responses' = Put(ws_responses, msg_id, content)
                               /\ ws_matched_pairs' =
                                      MatchRequest(ws_matched_pairs, ws_requests,
                                                   msg_id, content)
                               /\ UNCHANGED ws_requests
                     ELSE UNCHANGED <<ws_requests, ws_responses, ws_matched_pairs>>
          ELSE UNCHANGED <<ws_message_types, ws_requests, ws_responses,
                           ws_matched_pairs>>
    /\ UNCHANGED <<pc, input_exists, exit_status, warnings, http_endpoints,
                   client_types, fmt_in, fmt_out>>

(***************************************************************************)
(* Strings the code takes apart (URLs, methods, bodies) are sequences of   *)
(* characters.  Chars(s) is such a string as a Python value.               *)
(***************************************************************************)
Chars(s) == [t |-> "chars", v |-> s]

\* s.find(sub) + 1: the first place sub occurs in s, 0 when it does not
Find(s, sub) ==
    LET at == { i \in 1..(Len(s) - Len(sub) + 1) : SubSeq(s, i, i + Len(sub) - 1) = sub }
    IN IF at = {} THEN 0 ELSE CHOOSE i \in at : \A j \in at : i <= j

\* sub in s
Contains(s, sub) == Find(s, sub) # 0

\* s.split(sub, 1)[1], for s that contains sub
AfterFirst(s, sub) == SubSeq(s, Find(s, sub) + Len(sub), Len(s))

\* s.split(sub, 1)[-1]
LastOfSplit(s, sub) == IF Contains(s, sub) THEN AfterFirst(s, sub) ELSE s

\* lines 151-154
PathOf(url) ==
    IF Contains(url, <<":", "/", "/">>)
    THEN <<"/">> \o LastOfSplit(AfterFirst(url, <<":", "/", "/">>), <<"/">>)
    ELSE url

(***************************************************************************)
(* mask_sensitive_headers, lines 19-28.  Lower is key.lower() on the       *)
(* header names of the model.                                              *)
(***************************************************************************)
Lower(key) ==
    CASE key = "Authorization" -> "authorization"
      [] key = "Set-Cookie" -> "set-cookie"
      [] key = "Accept" -> "accept"
      [] OTHER -> key

sensitive_keys == { "authorization", "cookie", "set-cookie", "x-api-key" }

mask_sensitive_headers(headers) ==
    [key \in DOMAIN headers |->
        IF Lower(key) \in sensitive_keys THEN "***MASKED***" ELSE headers[key]]

(***************************************************************************)
(* json.dumps of a string: the text between double quotes, with the double *)
(* quote and the backslash escaped.                                        *)
(***************************************************************************)
RECURSIVE Escape(_)
Escape(s) ==
    IF \A i \in 1..Len(s) : s[i] \notin {"\"", "\\"} THEN s
    ELSE (IF Head(s) \in {"\"", "\\"} THEN <<"\\", Head(s)>> ELSE <<Head(s)>>)
         \o Escape(Tail(s))

JsonDumps(body) == <<"\"">> \o Escape(body.v) \o <<"\"">>

\* faulty variant of ReqSig: the signature leaves the method out
ReqSigBodyOnly(method, body) ==
    <<":">> \o (IF Truthy(body) THEN JsonDumps(body) ELSE <<>>)

\* f"{method}:{json.dumps(body, sort_keys=True) if body else ''}", lines 172-174
ReqSig(method, body) ==
    method \o <<":">> \o (IF Truthy(body) THEN JsonDumps(body) ELSE <<>>)

(***************************************************************************)
(* HTTP correlator, main() lines 147-178.                                  *)
(***************************************************************************)
NewEndpoint == [methods |-> {}, requests |-> <<>>, responses |-> <<>>]

RequestInfo(record) ==
    [method |-> record.method,
     headers |-> mask_sensitive_headers(record.request_headers),
     body |-> record.request_body]

ResponseInfo(record) ==
    [status_code |-> record.status_code,
     headers |-> mask_sensitive_headers(record.response_headers),
     body |-> record.response_body]

ReadHttp(record) ==
    /\ pc = "read"
    /\ record.type # "websocket"
    /\ lines' = Append(lines, JsonLine(record))
    /\ LET url == record.url
           method == record.method
           path == PathOf(url)
           info == IF path \in DOMAIN http_endpoints
                   THEN http_endpoints[path] ELSE NewEndpoint
           request_info == RequestInfo(record)
           response_info == ResponseInfo(record)
           req_sig == ReqSig(method, request_info.body)
           existing_sigs == { ReqSig(info.requests[j].method, info.requests[j].body) :
                                j \in 1..Len(info.requests) }
       IN http_endpoints' =
              Put(http_endpoints, path,
                  IF req_sig \notin existing_sigs
                  THEN [methods |-> info.methods \cup {method},
                        requests |-> Append(info.requests, request_info),
                        responses |-> Append(info.responses, response_info)]
                  ELSE [info EXCEPT !.methods = info.methods \cup {method}])
    /\ UNCHANGED <<pc, input_exists, exit_status, warnings, ws_message_types,
                   ws_requests, ws_responses, ws_matched_pairs, client_types,
                   fmt_in, fmt_out>>

(***************************************************************************)
(* Summary, main() lines 313-317: the message types with a retained sample *)
(* s for which s.get("id") is true, sorted.  TypeOrder lists the type      *)
(* names of the model in sorted() order.                                   *)
(***************************************************************************)
TypeOrder == <<Str("a"), Str("unknown")>>

AnySampleHasId(info) ==
    \E i \in 1..Len(info.samples) : Truthy(Get(info.samples[i], "id", None))

ClientTypes(types) ==
    SelectSeq(TypeOrder, LAMBDA ty : ty \in DOMAIN types /\ AnySampleHasId(types[ty]))

\* lines 180-336: the report is rendered and written, main() returns
Finish ==
    /\ pc = "read"
    /\ pc' = "done"
    /\ exit_status' = 0
    /\ client_types' = ClientTypes(ws_message_types)
    /\ UNCHANGED <<input_exists, lines, warnings, correlator, fmt_in, fmt_out>>

(***************************************************************************)
(* The WebSocket events of the model: both directions, and content that is *)
(* binary, JSON that is no object, the empty object, and objects with and  *)
(* without "type" and "id".                                                *)
(***************************************************************************)
WsContents ==
    { Text("<binary>", JsonError),
      Text("[1]", List1),
      Text("{}", Obj(Absent, Absent)),
      Text("{type:a}", Obj(Str("a"), Absent)),
      Text("{type:a,id:0}", Obj(Str("a"), Num(0))),
      Text("{type:a,id:1}", Obj(Str("a"), Num(1))),
      Text("{id:1}", Obj(Absent, Num(1))) }

WsEvents == { WsRecord(d, c) : d \in {"client", "server"}, c \in WsContents }

\* the state once the input file has been opened (line 110)
InitRead ==
    /\ pc = "read"
    /\ input_exists = TRUE
    /\ lines = <<>>
    /\ exit_status = -1
    /\ warnings = {}
    /\ http_endpoints = EmptyDict
    /\ ws_message_types = EmptyDict
    /\ ws_requests = EmptyDict
    /\ ws_responses = EmptyDict
    /\ ws_matched_pairs = <<>>
    /\ client_types = <<>>
    /\ fmt_in = None
    /\ fmt_out = <<>>

NextWs ==
    \/ Len(lines) < MaxWsLines /\ \E record \in WsEvents : ReadWebSocket(record)
    \/ Finish

SpecWs == InitRead /\ [][NextWs]_vars

(***************************************************************************)
(* Vocabulary of the claims, read off the input consumed so far.           *)
(***************************************************************************)
\* the content of a record is text that parses as a structured (key-value) object
IsParsedObject(record) ==
    /\ record.type = "websocket"
    /\ record.content.t = "str"
    /\ record.content.loads.t = "dict"

\* line k decodes to a record (a JSON object), Record(k)
IsRecord(k) == lines[k].loads.t = "dict"
Record(k) == lines[k].loads

ParsedObject(k) == IsRecord(k) /\ IsParsedObject(Record(k))

Message(k) == Record(k).content.loads

\* the message of line k carries correlation id i
Carries(k, i) == ParsedObject(k) /\ Message(k).id = i

ClientMsgs(i) == { k \in 1..Len(lines) : Carries(k, i) /\ Record(k).direction = "client" }
ServerMsgs(i) == { k \in 1..Len(lines) : Carries(k, i) /\ Record(k).direction = "server" }

CorrelationIds == { Num(0), Num(1) }

SetMax(S) == CHOOSE m \in S : \A x \in S : x <= m

PairsFor(i) == SelectSeq(ws_matched_pairs, LAMBDA p : p[1].id = i \/ p[2].id = i)

IsPrefix(s, t) == Len(s) <= Len(t) /\ SubSeq(t, 1, Len(s)) = s

\* C1: when exactly one client message and exactly one server message carry
\* id i and the client message comes first, the run ends with exactly one
\* pair for i, made of those two messages, client first.
C1_OnePairPerExchange ==
    pc = "done" =>
        \A i \in CorrelationIds :
            (/\ Cardinality(ClientMsgs(i)) = 1
             /\ Cardinality(ServerMsgs(i)) = 1
             /\ SetMax(ClientMsgs(i)) < SetMax(ServerMsgs(i)))
            => PairsFor(i) = << <<Message(SetMax(ClientMsgs(i))),
                                  Message(SetMax(ServerMsgs(i)))>> >>

C1_Witness ==
    /\ pc = "done"
    /\ Len(lines) = MaxWsLines
    /\ Cardinality(ClientMsgs(Num(1))) = 1
    /\ Cardinality(ServerMsgs(Num(1))) = 1
    /\ SetMax(ClientMsgs(Num(1))) < SetMax(ServerMsgs(Num(1)))
    /\ Message(SetMax(ClientMsgs(Num(1)))) # Message(SetMax(ServerMsgs(Num(1))))
    /\ Len(ws_matched_pairs) = 2

\* C5: the matched-pairs sequence only grows by appending: its value before
\* any step is a prefix of its value after the step.
C5_PairsAppendOnly == [][IsPrefix(ws_matched_pairs, ws_matched_pairs')]_vars

C5_Witness ==
    /\ Len(PairsFor(Num(1))) >= 2
    /\ Cardinality(ClientMsgs(Num(1))) >= 2
    /\ ws_matched_pairs[1] # ws_matched_pairs[Len(ws_matched_pairs)]

\* the server messages with id i that follow a client message with id i
ServerAfterClient(i) ==
    { k \in ServerMsgs(i) : \E c \in ClientMsgs(i) : c < k }

C10_PairCount ==
    \A i \in CorrelationIds : Len(PairsFor(i)) = Cardinality(ServerAfterClient(i))

C10_Step ==
    LET record == lines'[Len(lines')].loads
        i == record.content.loads.id
    IN lines' # lines =>
          /\ IF /\ IsParsedObject(record)
                /\ i \in CorrelationIds
                /\ record.direction = "server"
                /\ ClientMsgs(i) # {}
             THEN ws_matched_pairs' =
                      Append(ws_matched_pairs,
                             <<Message(SetMax(ClientMsgs(i))), record.content.loads>>)
             ELSE ws_matched_pairs' = ws_matched_pairs
          /\ C10_PairCount'

\* C10: a step appends exactly one pair when it reads a server message whose
\* id is already in the client mapping, that pair being (latest client
\* message with the id, this server message), and appends nothing otherwise;
\* so the pairs for id i number the server messages with id i that follow a
\* client message with id i.
C10_PairOnServerReply == [][C10_Step]_vars

C10_Witness ==
    /\ Cardinality(ClientMsgs(Num(1))) = 2
    /\ Message(SetMax(ClientMsgs(Num(1)))) = ws_requests[Num(1)]
    /\ \E k \in ClientMsgs(Num(1)) : Message(k) # ws_requests[Num(1)]
    /\ Len(PairsFor(Num(1))) = 1
    /\ ws_matched_pairs[1][1] = Message(SetMax(ClientMsgs(Num(1))))
    /\ ServerMsgs(Num(0)) # {}
    /\ PairsFor(Num(0)) = <<>>

MessageTypes == { Str("a"), Str("unknown") }

\* the type a message carries; a message with no type field counts as "unknown"
TypeOf(m) == IF m.type = Absent THEN Str("unknown") ELSE m.type

\* a message carries a correlation id
HasCorrelationId(m) == m.id # Absent /\ m.id # None

\* the group recorded for type ty, empty when the type was never seen
RecordedIn(types, ty) == IF ty \in DOMAIN types THEN types[ty] ELSE NewTypeGroup

\* the parsed objects of type ty, in input order
MessagesOfType(ty) ==
    LET idx == SelectSeq([k \in 1..Len(lines) |-> k],
                         LAMBDA k : ParsedObject(k) /\ TypeOf(Message(k)) = ty)
    IN [j \in 1..Len(idx) |-> Message(idx[j])]

Min(a, b) == IF a <= b THEN a ELSE b

\* C3: for every message type, the recorded count is the number of events
\* whose content parses as an object of that type (no type field: "unknown"),
\* and the retained samples are the first min(3, count) of them in input order.
C3_CountsAndFirstSamples ==
    \A ty \in MessageTypes :
        LET msgs == MessagesOfType(ty)
            group == RecordedIn(ws_message_types, ty)
        IN /\ group.count = Len(msgs)
           /\ group.samples = SubSeq(msgs, 1, Min(3, Len(msgs)))

\* the effect of reading a parsed message that has no correlation id
C8_Step ==
    LET record == lines'[Len(lines')].loads
        m == record.content.loads
        before == RecordedIn(ws_message_types, TypeOf(m))
        after == RecordedIn(ws_message_types', TypeOf(m))
    IN (lines' # lines /\ IsParsedObject(record) /\ ~HasCorrelationId(m)) =>
          /\ after.count = before.count + 1
          /\ after.samples = IF Len(before.samples) < 3
                             THEN Append(before.samples, m)
                             ELSE before.samples
          /\ UNCHANGED <<ws_requests, ws_responses, ws_matched_pairs>>

\* C8: reading a parsed message with no correlation id increments the count
\* of its type, adds it as a sample while fewer than 3 are retained, and
\* leaves the client mapping, the server mapping and the pairs unchanged.
C8_NoIdOnlyStatistics == [][C8_Step]_vars

\* C9: a message type is in the Summary's client-originated list exactly
\* when one of its retained samples carries a correlation id, whatever the
\* value of the id.
C9_ClientListIffSampleHasId ==
    pc = "done" =>
        \A ty \in DOMAIN ws_message_types :
            (\E j \in 1..Len(client_types) : client_types[j] = ty)
            <=> (\E j \in 1..Len(ws_message_types[ty].samples) :
                    HasCorrelationId(ws_message_types[ty].samples[j]))

(***************************************************************************)
(* The HTTP events of the model.  A URL is written scheme://host/path; the *)
(* URLs of the model are built from their parts, so that a claim can speak *)
(* of the scheme, the host and the path of an event.                       *)
(***************************************************************************)
MkUrl(parts) ==
    (IF parts.scheme = <<>> THEN <<>> ELSE parts.scheme \o <<":", "/", "/">>)
    \o parts.host \o parts.path

Http == <<"h", "t", "t", "p">>
Https == <<"h", "t", "t", "p", "s">>

UrlParts ==
    { [scheme |-> Http, host |-> <<"x">>, path |-> <<"/", "a">>],
      [scheme |-> Https, host |-> <<"y">>, path |-> <<"/", "a">>],
      [scheme |-> Http, host |-> <<"x">>, path |-> <<>>],
      [scheme |-> <<>>, host |-> <<>>, path |-> <<"/", "a">>],
      [scheme |-> <<>>, host |-> <<>>, path |-> <<>>] }

GET == <<"G", "E", "T">>
POST == <<"P", "O", "S", "T">>

RequestHeaders == [key \in {"Authorization", "Accept"} |->
                      IF key = "Authorization" THEN "Bearer t" ELSE "*/*"]
ResponseHeaders == [key \in {"Set-Cookie"} |-> "s=1"]

HttpRecord(url, method, body, status) ==
    [t |-> "dict", type |-> "absent", url |-> url, method |-> method,
     request_headers |-> RequestHeaders, request_body |-> body,
     status_code |-> status,
     response_headers |-> ResponseHeaders, response_body |-> None]

UrlA == MkUrl([scheme |-> Http, host |-> <<"x">>, path |-> <<"/", "a">>])

HttpEvents ==
    { HttpRecord(UrlA, m, b, st) :
        m \in {GET, POST}, b \in {None, Chars(<<"a">>)}, st \in {200, 500} }
    \cup { HttpRecord(UrlA, GET, Chars(<<>>), 200) }
    \cup { HttpRecord(MkUrl(parts), GET, None, 200) : parts \in UrlParts }

NextHttp ==
    \/ Len(lines) < MaxHttpLines /\ \E record \in HttpEvents : ReadHttp(record)
    \/ Finish

SpecHttp == InitRead /\ [][NextHttp]_vars

IsHttp(k) == IsRecord(k) /\ Record(k).type # "websocket"

\* the HTTP events grouped under a path, as places in the input
HttpLines(path) == { k \in 1..Len(lines) : IsHttp(k) /\ PathOf(Record(k).url) = path }

\* a request body is absent: missing, or the empty text
NoBody(body) == body = None \/ body = Chars(<<>>)

\* two requests have the same (method, body-signature) pair: the canonical
\* serialization of a body tells bodies apart, and is empty for an absent one
SameShape(method1, body1, method2, body2) ==
    /\ method1 = method2
    /\ \/ NoBody(body1) /\ NoBody(body2)
       \/ ~NoBody(body1) /\ ~NoBody(body2) /\ body1 = body2

SameSignature(r1, r2) ==
    SameShape(r1.method, r1.request_body, r2.method, r2.request_body)

\* line k is the first event of its signature under its path
FirstOfSignature(k, path) ==
    \A j \in HttpLines(path) : j < k => ~SameSignature(Record(j), Record(k))

\* C2: after every event, the examples retained under a path are exactly the
\* first events of each distinct (method, body-signature) pair, in input
\* order: one example per signature, never replaced and never added to by a
\* later event with the same signature.
C2_FirstExamplePerSignature ==
    \A path \in DOMAIN http_endpoints :
        LET firsts == SelectSeq([k \in 1..Len(lines) |-> k],
                                LAMBDA k : k \in HttpLines(path)
                                           /\ FirstOfSignature(k, path))
            info == http_endpoints[path]
        IN /\ info.requests = [j \in 1..Len(firsts) |-> RequestInfo(Record(firsts[j]))]
           /\ info.responses = [j \in 1..Len(firsts) |-> ResponseInfo(Record(firsts[j]))]
           /\ \A i, j \in 1..Len(info.requests) :
                  i # j => ~SameShape(info.requests[i].method, info.requests[i].body,
                                      info.requests[j].method, info.requests[j].body)

C2_Witness ==
    \E path \in DOMAIN http_endpoints :
        /\ Len(http_endpoints[path].requests) = 2
        /\ Cardinality(HttpLines(path)) = 3
        /\ \E k \in HttpLines(path) :
              /\ ~FirstOfSignature(k, path)
              /\ \A j \in 1..Len(http_endpoints[path].responses) :
                    http_endpoints[path].responses[j] # ResponseInfo(Record(k))

\* the scheme, host and path a URL of the model is written from
PartsOf(url) == CHOOSE parts \in UrlParts : MkUrl(parts) = url

\* the path of a URL with the scheme and host stripped and a leading "/"
NormalizedPath(parts) ==
    <<"/">> \o (IF parts.path # <<>> /\ Head(parts.path) = "/"
                THEN Tail(parts.path) ELSE parts.path)

\* C6: every HTTP event is grouped under its URL's path with scheme and host
\* stripped, and every key begins with "/"; so events whose URLs differ only
\* in scheme or host share a key.
C6_KeyIsNormalizedPath ==
    /\ \A k \in 1..Len(lines) :
          IsHttp(k) =>
              LET key == NormalizedPath(PartsOf(Record(k).url))
              IN /\ key \in DOMAIN http_endpoints
                 /\ Record(k).method \in http_endpoints[key].methods
    /\ \A key \in DOMAIN http_endpoints : key # <<>> /\ Head(key) = "/"

(***************************************************************************)
(* Pipeline driver, main() lines 86-120 and 180-336.                       *)
(***************************************************************************)
MaxLines == 3

Init ==
    /\ pc = "start"
    /\ input_exists \in BOOLEAN
    /\ lines = <<>>
    /\ exit_status = -1
    /\ warnings = {}
    /\ http_endpoints = EmptyDict
    /\ ws_message_types = EmptyDict
    /\ ws_requests = EmptyDict
    /\ ws_responses = EmptyDict
    /\ ws_matched_pairs = <<>>
    /\ client_types = <<>>
    /\ fmt_in = None
    /\ fmt_out = <<>>

\* lines 89-91: if not input_path.exists(): print(...); sys.exit(1)
MissingInput ==
    /\ pc = "start"
    /\ ~input_exists
    /\ pc' = "exit1"
    /\ exit_status' = 1
    /\ UNCHANGED <<input_exists, lines, warnings, correlator, client_types,
                   fmt_in, fmt_out>>

\* line 110: the input file is opened
OpenInput ==
    /\ pc = "start"
    /\ input_exists
    /\ pc' = "read"
    /\ UNCHANGED <<input_exists, lines, exit_status, warnings, correlator,
                   client_types, fmt_in, fmt_out>>

\* lines 112-114: an empty line is skipped
SkipBlank(line) ==
    /\ pc = "read"
    /\ line.v = ""
    /\ lines' = Append(lines, line)
    /\ UNCHANGED <<pc, input_exists, exit_status, warnings, correlator,
                   client_types, fmt_in, fmt_out>>

\* lines 116-120: json.JSONDecodeError is caught, a warning with the line
\* number is printed and the loop continues
WarnUnparseable(line) ==
    /\ pc = "read"
    /\ line.v # ""
    /\ line.loads = JsonError
    /\ lines' = Append(lines, line)
    /\ warnings' = warnings \cup {Len(lines) + 1}
    /\ UNCHANGED <<pc, input_exists, exit_status, correlator, client_types,
                   fmt_in, fmt_out>>

\* line 122: record.get on a decoded value that is no dict raises
\* AttributeError, which nothing catches: the interpreter exits with status 1
CrashNonObject(line) ==
    /\ pc = "read"
    /\ line.v # ""
    /\ line.loads # JsonError
    /\ line.loads.t # "dict"
    /\ lines' = Append(lines, line)
    /\ pc' = "crashed"
    /\ exit_status' = 1
    /\ UNCHANGED <<input_exists, warnings, correlator, client_types, fmt_in, fmt_out>>

\* the lines of the model that are no record
BlankLine == Text("", JsonError)
UnparseableLine == Text("not json", JsonError)
NumberLine == Text("42", Num(42))

SomeWsEvents ==
    { WsRecord("client", Text("{type:a,id:1}", Obj(Str("a"), Num(1)))),
      WsRecord("server", Text("{id:1}", Obj(Absent, Num(1)))),
      WsRecord("server", None) }

SomeHttpEvents ==
    { HttpRecord(UrlA, GET, None, 200),
      HttpRecord(UrlA, POST, Chars(<<"a">>), 500) }

Next ==
    \/ MissingInput
    \/ OpenInput
    \/ Len(lines) < MaxLines /\ SkipBlank(BlankLine)
    \/ Len(lines) < MaxLines /\ WarnUnparseable(UnparseableLine)
    \/ Len(lines) < MaxLines /\ CrashNonObject(NumberLine)
    \/ Len(lines) < MaxLines /\ \E record \in SomeWsEvents : ReadWebSocket(record)
    \/ Len(lines) < MaxLines /\ \E record \in SomeHttpEvents : ReadHttp(record)
    \/ Finish

Spec == Init /\ [][Next]_vars

\* the run has ended
Ended == pc \in {"done", "exit1", "crashed"}

\* line k does not decode to a record: text json.loads rejects, or JSON that
\* is no object
DecodeFailure(k) == lines[k].v # "" /\ ~IsRecord(k)

\* C4: a line that does not decode to a record is a per-line decode failure:
\* it is warned about and skipped, the run goes on to the end and exits with
\* status 0 however many lines fail; only an absent input file gives a
\* non-zero status.
C4_DecodeFailuresAreSkipped ==
    /\ \A k \in 1..Len(lines) : DecodeFailure(k) => k \in warnings
    /\ pc # "crashed"
    /\ Ended => (exit_status = 0 <=> input_exists)

(***************************************************************************)
(* Report renderer: format_json (lines 73-82) and the blocks of the report *)
(* that print a body or a message (lines 204-226, 249, 281, 286).          *)
(***************************************************************************)
RequestBodyLimit == 1000
RawBodyLimit == 1000
SampleLimit == 800
PairLimit == 600

TruncatedSuffix ==
    <<"\n", ".", ".", ".", " ", "(", "t", "r", "u", "n", "c", "a", "t", "e", "d", ")">>

\* mask_sensitive_body, lines 31-60.  The texts of the model hold none of
\* "eyJ", "refresh_token" and "access_token", so none of the three patterns
\* matches and each re.sub returns the text it was given.
mask_sensitive_body(body) == body

\* json.loads of a text over the characters x and ": the text of a JSON
\* string decodes to the string, every other text raises JSONDecodeError
JsonLoads(text) ==
    IF /\ Len(text) >= 2
       /\ text[1] = "\""
       /\ text[Len(text)] = "\""
       /\ \A i \in 2..(Len(text) - 1) : text[i] \notin {"\"", "\\"}
    THEN Chars(SubSeq(text, 2, Len(text) - 1))
    ELSE JsonError

\* json.dumps(obj, indent=2, ensure_ascii=False) of a string, of the ids 0
\* to 9, and of a dict, whose items json.dumps prints in insertion order:
\* "type" before "id", the order of the texts of the model
DumpsScalar(value) ==
    CASE value.t = "chars" -> JsonDumps(value)
      [] value.t = "int" -> <<<<"0", "1", "2", "3", "4", "5", "6", "7", "8", "9">>[value.v + 1]>>
      [] value.t = "null" -> <<"n", "u", "l", "l">>

DumpsItem(key, value) == <<" ", " ", "\"">> \o key \o <<"\"", ":", " ">> \o DumpsScalar(value)

JsonDumpsIndent(obj) ==
    IF obj.t # "dict" THEN DumpsScalar(obj)
    ELSE LET type_item == DumpsItem(<<"t", "y", "p", "e">>, obj.type)
             id_item == DumpsItem(<<"i", "d">>, obj.id)
         IN CASE obj.type = Absent /\ obj.id = Absent -> <<"{", "}">>
              [] obj.type # Absent /\ obj.id = Absent ->
                     <<"{", "\n">> \o type_item \o <<"\n", "}">>
              [] obj.type = Absent /\ obj.id # Absent ->
                     <<"{", "\n">> \o id_item \o <<"\n", "}">>
              [] OTHER ->
                     <<"{", "\n">> \o type_item \o <<",", "\n">> \o id_item \o <<"\n", "}">>

Take(text, n) == SubSeq(text, 1, IF Len(text) < n THEN Len(text) ELSE n)

\* format_json(obj, max_length=..., mask_secrets=...)
format_json(obj, max_length, mask_secrets) ==
    IF obj = None THEN <<"n", "u", "l", "l">>
    ELSE LET dumped == JsonDumpsIndent(obj)
             formatted == IF mask_secrets THEN mask_sensitive_body(dumped) ELSE dumped
         IN IF Len(formatted) > max_length
            THEN Take(formatted, max_length) \o TruncatedSuffix
            ELSE formatted

\* lines 204-213 and 217-226: the body block of an HTTP example
RenderHttpBody(body) ==
    LET masked_body == mask_sensitive_body(body.v)
        decoded == JsonLoads(masked_body)
    IN IF decoded # JsonError
       THEN format_json(decoded, RequestBodyLimit, FALSE)
       ELSE Take(masked_body, RawBodyLimit)

\* one block of the report: fmt_in.site says which, fmt_in.value is the
\* stored body or message
RenderBlock(block) ==
    CASE block.site \in {"request_body", "response_body"} ->
             RenderHttpBody(block.value)
      [] block.site = "sample" -> format_json(block.value, SampleLimit, TRUE)
      [] block.site \in {"pair_request", "pair_response"} ->
             format_json(block.value, PairLimit, TRUE)

Render ==
    /\ pc = "render"
    /\ pc' = "rendered"
    /\ fmt_out' = RenderBlock(fmt_in)
    /\ UNCHANGED <<input_exists, lines, exit_status, warnings, correlator,
                   client_types, fmt_in>>

(***************************************************************************)
(* The bodies and messages of the model that are rendered: texts whose     *)
(* rendered length runs from Margin below each section's limit to MaxOver  *)
(* above it, and the short ones.                                           *)
(***************************************************************************)
MaxOver == 2
Margin == 4

Xs(n) == [i \in 1..n |-> "x"]

Around(limit) == {0, 1} \cup { n \in (limit - Margin - 20)..(limit + MaxOver) : n >= 0 }

HttpBodies ==
    { Chars(Xs(n)) : n \in Around(RequestBodyLimit) \ {0} }
    \cup { Chars(<<"\"">> \o Xs(n) \o <<"\"">>) : n \in Around(RequestBodyLimit) }

Messages(limit) ==
    { Obj(Chars(Xs(n)), id) : n \in Around(limit), id \in {Absent, Num(1)} }

Blocks ==
    { [site |-> site, value |-> body] :
        site \in {"request_body", "response_body"}, body \in HttpBodies }
    \cup { [site |-> "sample", value |-> m] : m \in Messages(SampleLimit) }
    \cup { [site |-> site, value |-> m] :
             site \in {"pair_request", "pair_response"}, m \in Messages(PairLimit) }

\* the renderer is about to print one block of the report
InitRender ==
    /\ pc = "render"
    /\ input_exists = TRUE
    /\ lines = <<>>
    /\ exit_status = -1
    /\ warnings = {}
    /\ http_endpoints = EmptyDict
    /\ ws_message_types = EmptyDict
    /\ ws_requests = EmptyDict
    /\ ws_responses = EmptyDict
    /\ ws_matched_pairs = <<>>
    /\ client_types = <<>>
    /\ fmt_in \in Blocks
    /\ fmt_out = <<>>

NextRender == Render

SpecRender == InitRender /\ [][NextRender]_vars

\* the limit of the section a block is printed in
LimitOf(site) ==
    CASE site \in {"request_body", "response_body"} -> 1000
      [] site = "sample" -> 800
      [] site \in {"pair_request", "pair_response"} -> 600

\* the rendered text of a block: the pretty-printed, redacted form of a body
\* or message, or the redacted raw text of a body that fails to parse
RenderedText(block) ==
    IF block.site \in {"request_body", "response_body"}
    THEN LET masked == mask_sensitive_body(block.value.v)
         IN IF JsonLoads(masked) # JsonError
            THEN JsonDumpsIndent(JsonLoads(masked))
            ELSE masked
    ELSE mask_sensitive_body(JsonDumpsIndent(block.value))

\* C7: a rendered text longer than its section's limit is emitted as its
\* first limit characters followed by "\n... (truncated)"; a text within the
\* limit is emitted unchanged.
C7_TruncationAddsSuffix ==
    pc = "rendered" =>
        LET rendered == RenderedText(fmt_in)
            limit == LimitOf(fmt_in.site)
        IN IF Len(rendered) > limit
           THEN /\ fmt_out = SubSeq(rendered, 1, limit) \o TruncatedSuffix
                /\ Len(fmt_out) = limit + Len(TruncatedSuffix)
           ELSE fmt_out = rendered

====
